---- MODULE Spec2Model ----
(***************************************************************************)
(* A model of the ExistentialSpecializer function pass                     *)
(* (lib/SILOptimizer/FunctionSignatureTransforms/ExistentialSpecializer.cpp)*)
(*                                                                         *)
(* The pass walks the instructions of one function F.  For every full      *)
(* apply site it asks canSpecializeCalleeFunction (the Filter), then       *)
(* canSpecializeExistentialArgsInFunction (the Analyzer), then hands the   *)
(* callee to ExistentialTransform (the Rewriter) and, when that reports a  *)
(* change, bumps a statistic, enqueues the new function and invalidates    *)
(* the callee's analyses.                                                  *)
(***************************************************************************)
EXTENDS Integers, Sequences, FiniteSets, TLC

\* ------------------------------------------------------------------ bounds

\* Most instructions in the body of F.
MaxInsts == 3
\* Most parameters of a callee drawn for the Analyzer.
MaxArgs == 2
\* Most use records of one callee argument.
MaxUses == 2

\* ------------------------------------------------------------- value sets

RECURSIVE SeqsOfLen(_, _)
SeqsOfLen(S, n) ==
  IF n = 0 THEN {<<>>}
  ELSE {Append(s, x) : s \in SeqsOfLen(S, n - 1), x \in S}

SeqsUpTo(S, n) == UNION {SeqsOfLen(S, k) : k \in 0..n}

\* The classification of a callee argument's type.  The last five are
\* existential types, named after how the existential is represented.
ArgTypes ==
  {"Concrete", "Any", "AnyObject", "OpaqueProtocol", "ClassProtocol",
   "ErrorProtocol", "MetatypeProtocol"}

isExistentialType(ArgType) == ArgType # "Concrete"

isAnyObject(ArgType) == ArgType = "AnyObject"

isAny(ArgType) == ArgType = "Any"

getPreferredExistentialRepresentation(ArgType) ==
  CASE ArgType \in {"Any", "OpaqueProtocol"} -> "Opaque"
    [] ArgType \in {"AnyObject", "ClassProtocol"} -> "Class"
    [] ArgType = "ErrorProtocol" -> "Boxed"
    [] ArgType = "MetatypeProtocol" -> "Metatype"
    [] OTHER -> "None"

\* The passing convention of a parameter.
ParamConventions == {"indirectMutating", "consumed", "borrowed", "direct"}

isIndirectMutating(paramInfo) == paramInfo = "indirectMutating"

isConsumed(paramInfo) == paramInfo = "consumed"

\* The users of a callee argument: destroy_addr, or anything else.
UseKinds == {"DestroyAddr", "Other"}

\* A callee argument: its type, its convention, its use list.
Arg(type, conv, uses) == [type |-> type, conv |-> conv, uses |-> uses]

AllArgs ==
  {Arg(t, c, u) : t \in ArgTypes, c \in ParamConventions,
                  u \in SeqsUpTo(UseKinds, MaxUses)}

P_concrete == Arg("Concrete", "direct", <<"Other">>)
P_opaque == Arg("OpaqueProtocol", "borrowed", <<"Other", "DestroyAddr">>)
P_class == Arg("ClassProtocol", "consumed", <<"DestroyAddr">>)
P_any == Arg("Any", "borrowed", <<>>)
P_error == Arg("ErrorProtocol", "direct", <<>>)

BasicArgs == {P_concrete, P_opaque, P_class, P_any, P_error}

InlineStrategies == {"InlineDefault", "NoInline", "AlwaysInline"}

Linkages == {"Public", "Private", "PublicExternal", "HiddenExternal"}

isAvailableExternally(linkage) == linkage \in {"PublicExternal", "HiddenExternal"}

Representations == {"Thin", "Method", "ObjCMethod", "Block"}

\* The attributes of a function that the Filter reads.
Attributes ==
  [shouldOptimize : BOOLEAN, isDefinition : BOOLEAN,
   hasIndirectSILResults : BOOLEAN, hasErrorResult : BOOLEAN,
   inlineStrategy : InlineStrategies, linkage : Linkages,
   representation : Representations]

PlainAttributes ==
  [shouldOptimize |-> TRUE, isDefinition |-> TRUE,
   hasIndirectSILResults |-> FALSE, hasErrorResult |-> FALSE,
   inlineStrategy |-> "InlineDefault", linkage |-> "Public",
   representation |-> "Thin"]

\* A function: its attributes and the arguments of its entry block.
Function(attrs, args) == [attrs |-> attrs, args |-> args]

\* The functions of the module: the function being processed and one other.
FunctionNames == {"F", "g"}

\* The name the mangler gives the specialization of a callee: the same
\* callee always mangles to the same name.
MangledName(Callee) == IF Callee = "F" THEN "F_spec" ELSE "g_spec"

\* An instruction of F: either no apply at all, or a full apply site with
\* its referenced function ("none" when the callee is not a function_ref),
\* for each applied argument whether a concrete type can be found for it,
\* and the callee argument index of its first applied argument.
NonApply == [isApply |-> FALSE, callee |-> "none", concrete |-> <<>>, first |-> 0]

ApplyOf(callee, concrete, first) ==
  [isApply |-> TRUE, callee |-> callee, concrete |-> concrete, first |-> first]

EmptyMap == [k \in {} |-> FALSE]

\* ------------------------------------------------------------------ state

VARIABLES
  funcs,          \* the module: function name -> Function
  body,           \* the blocks of F as laid out when the run starts
  enabled,        \* Options.ExistentialSpecializer
  asserts,        \* whether the build keeps assert()
  pc,             \* where the run is
  BB, It,         \* the block and the instruction the loops are at
  ExistentialArgDescriptor,   \* the descriptor map of the current call site
  Changed,        \* the local of the same name
  NumFunctionsWithExistentialArgsSpecialized,
  worklist,       \* functions handed to addFunctionToPassManagerWorklist
  invalidated,    \* functions handed to PM->invalidateAnalysis
  thunks,         \* functions whose body the Rewriter replaced by a forwarder
  visited,        \* the instructions the loop has looked at, in order
  filterLog,      \* the Filter's evaluations
  analyzerLog,    \* the Analyzer's evaluations
  rewriterLog     \* the Rewriter's invocations

vars ==
  <<funcs, body, enabled, asserts, pc, BB, It, ExistentialArgDescriptor,
    Changed, NumFunctionsWithExistentialArgsSpecialized, worklist,
    invalidated, thunks, visited, filterLog, analyzerLog, rewriterLog>>

\* ------------------------------------------------------------- the Filter

\* Apply.getReferencedFunction(): the callee's name, or "none".
getReferencedFunction(Apply) == Apply.callee

\* Variant: without the test for an error result.
canSpecializeCalleeFunction_NoErrorCheck(Apply) ==
  IF getReferencedFunction(Apply) = "none" THEN FALSE
  ELSE LET Callee == funcs[getReferencedFunction(Apply)].attrs IN
       IF ~Callee.shouldOptimize THEN FALSE
       ELSE IF ~Callee.isDefinition THEN FALSE
       ELSE IF Callee.hasIndirectSILResults THEN FALSE
       ELSE IF Callee.inlineStrategy = "AlwaysInline" THEN FALSE
       ELSE IF isAvailableExternally(Callee.linkage) THEN FALSE
       ELSE IF Callee.representation \in {"ObjCMethod", "Block"} THEN FALSE
       ELSE TRUE

\* Can the callee be specialized?  The checks in the order of the code,
\* each returning false at once.
canSpecializeCalleeFunction(Apply) ==
  IF getReferencedFunction(Apply) = "none" THEN FALSE
  ELSE LET Callee == funcs[getReferencedFunction(Apply)].attrs IN
       IF ~Callee.shouldOptimize THEN FALSE
       ELSE IF ~Callee.isDefinition THEN FALSE
       ELSE IF Callee.hasIndirectSILResults THEN FALSE
       ELSE IF Callee.hasErrorResult THEN FALSE
       ELSE IF Callee.inlineStrategy = "AlwaysInline" THEN FALSE
       ELSE IF isAvailableExternally(Callee.linkage) THEN FALSE
       ELSE IF Callee.representation \in {"ObjCMethod", "Block"} THEN FALSE
       ELSE TRUE

\* ----------------------------------------------------------- the Analyzer

\* The loop of findIfCalleeUsesArgInDestroyUse from use k on: the first
\* destroy_addr user sets the flag and ends the loop.
RECURSIVE ScanUses(_, _, _)
ScanUses(uses, k, ETAD) ==
  IF k > Len(uses) THEN ETAD
  ELSE IF uses[k] = "DestroyAddr"
       THEN [ETAD EXCEPT !.DestroyAddrUse = TRUE]
       ELSE ScanUses(uses, k + 1, ETAD)

\* Variant: only the first use is looked at.
findIfCalleeUsesArgInDestroyUse_FirstUseOnly(CalleeArg, ETAD) ==
  IF Len(CalleeArg.uses) >= 1 /\ CalleeArg.uses[1] = "DestroyAddr"
  THEN [ETAD EXCEPT !.DestroyAddrUse = TRUE]
  ELSE ETAD

findIfCalleeUsesArgInDestroyUse(CalleeArg, ETAD) ==
  ScanUses(CalleeArg.uses, 1, ETAD)

\* ConcreteExistentialInfo(Apply.getArgumentRef(Idx)...).ConcreteType, as
\* "is there one": the Idx-th applied argument of the call site.  An Idx
\* past the applied arguments reads no operand of the apply; oob is what
\* that read gives.
ConcreteType(Apply, Idx, oob) ==
  IF Idx < Len(Apply.concrete) THEN Apply.concrete[Idx + 1] ELSE oob

\* Variant: without the test for Any.
SkipArgType_AnyNotChecked(ArgType) ==
  ~isExistentialType(ArgType) \/ isAnyObject(ArgType)

\* The first "continue" of the argument loop.
SkipArgType(ArgType) ==
  ~isExistentialType(ArgType) \/ isAnyObject(ArgType) \/ isAny(ArgType)

\* Variant: a consumed parameter is not taken as mutable.
AccessTypeOf_MutatingOnly(paramInfo) ==
  IF isIndirectMutating(paramInfo) THEN "Mutable" ELSE "Immutable"

\* ETAD.AccessType for a parameter's convention.
AccessTypeOf(paramInfo) ==
  IF isIndirectMutating(paramInfo) \/ isConsumed(paramInfo)
  THEN "Mutable"
  ELSE "Immutable"

MapPut(map, Idx, ETAD) ==
  [k \in DOMAIN map \cup {Idx} |-> IF k = Idx THEN ETAD ELSE map[k]]

\* The argument loop of canSpecializeExistentialArgsInFunction from Idx on.
\* acc carries the descriptor map, returnFlag, and what the loop did on the
\* way: the indices it asked a concrete type for and those whose uses it
\* scanned.
RECURSIVE ArgLoop(_, _, _, _, _)
ArgLoop(CalleeArgs, Apply, oob, Idx, acc) ==
  IF Idx >= Len(CalleeArgs) THEN acc
  ELSE
    LET CalleeArg == CalleeArgs[Idx + 1]
        ArgType == CalleeArg.type
        ExistentialRepr == getPreferredExistentialRepresentation(ArgType)
    IN
    IF SkipArgType(ArgType)
    THEN ArgLoop(CalleeArgs, Apply, oob, Idx + 1, acc)
    ELSE IF ExistentialRepr # "Opaque" /\ ExistentialRepr # "Class"
    THEN ArgLoop(CalleeArgs, Apply, oob, Idx + 1, acc)
    ELSE
      LET asked == [acc EXCEPT !.resolved = @ \cup {Idx}] IN
      IF ~ConcreteType(Apply, Idx, oob)
      THEN ArgLoop(CalleeArgs, Apply, oob, Idx + 1, asked)
      ELSE
        LET ETAD0 == [AccessType |-> AccessTypeOf(CalleeArg.conv),
                      DestroyAddrUse |-> FALSE]
            scan == getPreferredExistentialRepresentation(ArgType) # "Class"
            ETAD == IF scan
                    THEN findIfCalleeUsesArgInDestroyUse(CalleeArg, ETAD0)
                    ELSE ETAD0
        IN ArgLoop(CalleeArgs, Apply, oob, Idx + 1,
                   [asked EXCEPT
                      !.map = MapPut(@, Idx, ETAD),
                      !.scans = IF scan THEN @ \cup {Idx} ELSE @,
                      !.returnFlag = TRUE])

\* Variant: the flag returned is true whatever the loop found.
canSpecializeExistentialArgsInFunction_AlwaysTrue(Apply, oob) ==
  [ArgLoop(funcs[getReferencedFunction(Apply)].args, Apply, oob, 0,
           [map |-> EmptyMap, returnFlag |-> FALSE,
            resolved |-> {}, scans |-> {}])
     EXCEPT !.returnFlag = TRUE]

\* canSpecializeExistentialArgsInFunction past its assert: the map it
\* fills in (empty when handed in) and the flag it returns.
canSpecializeExistentialArgsInFunction(Apply, oob) ==
  ArgLoop(funcs[getReferencedFunction(Apply)].args, Apply, oob, 0,
          [map |-> EmptyMap, returnFlag |-> FALSE,
           resolved |-> {}, scans |-> {}])

\* Variant: the loop stops one argument short.
ArgumentDescList_OffByOne(Args) ==
  [i \in 1..(Len(Args) - 1) |-> [Arg |-> Args[i], Index |-> i - 1]]

\* The positional descriptor list: one ArgumentDescriptor per entry-block
\* argument of the callee, in index order.
ArgumentDescList(Args) ==
  [i \in 1..Len(Args) |-> [Arg |-> Args[i], Index |-> i - 1]]

\* ----------------------------------------------------------- the Rewriter

\* ET.getExistentialSpecializedFunction(): the new function, under the
\* name mangled from the callee.
getExistentialSpecializedFunction(Callee) == MangledName(Callee)

\* What a successful rewrite leaves of the instruction list: the call at
\* (b, i) now calls the specialized function.  When the callee is F itself
\* its body has become a forwarder and the old instructions are gone; the
\* list kept here is then only what the loop still walks.
RewriteCallSite(blocks, b, i, Callee) ==
  IF Callee = "F" THEN blocks
  ELSE [blocks EXCEPT ![b][i].callee = getExistentialSpecializedFunction(Callee)]

\* ET.run() with its answer ran: the transform either makes the specialized
\* function, turning the callee into a forwarder to it and the call into a
\* call of it, or declines and touches nothing.
ExistentialTransform_run(ran, Callee) ==
  IF ran
  THEN /\ thunks' = thunks \cup {Callee}
       /\ body' = RewriteCallSite(body, BB, It, Callee)
  ELSE UNCHANGED <<thunks, body>>

\* --------------------------------------------------------------- the loop

\* The instruction the loops are at.
CurrentInstruction == body[BB][It]

\* ++It, and the next block once the block is finished.
Advance ==
  IF It < Len(body[BB])
  THEN BB' = BB /\ It' = It + 1
  ELSE BB' = BB + 1 /\ It' = 1

\* Variant: Changed |= ET.run(), which keeps an earlier success.
ChangedAfter_Sticky(old, ran) == old \/ ran

\* Changed = ET.run()
ChangedAfter(old, ran) == ran

\* run(): functions that should not be optimized are left alone.
Run ==
  /\ pc = "start"
  /\ pc' = IF ~funcs["F"].attrs.shouldOptimize \/ ~enabled
           THEN "skipped"
           ELSE "loop"
  /\ UNCHANGED <<funcs, body, enabled, asserts, BB, It,
                 ExistentialArgDescriptor, Changed,
                 NumFunctionsWithExistentialArgsSpecialized, worklist,
                 invalidated, thunks, visited, filterLog, analyzerLog,
                 rewriterLog>>

\* One step of the two loops: look at the next instruction; anything that
\* is no full apply site is passed over.
VisitInstruction ==
  /\ pc = "loop"
  /\ BB <= Len(body)
  /\ visited' = Append(visited, <<BB, It>>)
  /\ IF ~CurrentInstruction.isApply
     THEN Advance /\ pc' = "loop"
     ELSE pc' = "filter" /\ UNCHANGED <<BB, It>>
  /\ UNCHANGED <<funcs, body, enabled, asserts, ExistentialArgDescriptor,
                 Changed, NumFunctionsWithExistentialArgsSpecialized,
                 worklist, invalidated, thunks, filterLog, analyzerLog,
                 rewriterLog>>

\* The loops have run off the last block: return.
Return ==
  /\ pc = "loop"
  /\ BB > Len(body)
  /\ pc' = "done"
  /\ UNCHANGED <<funcs, body, enabled, asserts, BB, It,
                 ExistentialArgDescriptor, Changed,
                 NumFunctionsWithExistentialArgsSpecialized, worklist,
                 invalidated, thunks, visited, filterLog, analyzerLog,
                 rewriterLog>>

\* Can the callee be specialized?  If not, on to the next instruction.
FilterStep ==
  /\ pc = "filter"
  /\ LET Apply == CurrentInstruction
         ok == canSpecializeCalleeFunction(Apply)
     IN /\ filterLog' = Append(filterLog,
                               [site |-> <<BB, It>>, callee |-> Apply.callee,
                                result |-> ok])
        /\ IF ~ok
           THEN Advance /\ pc' = "loop"
           ELSE pc' = "analyze" /\ UNCHANGED <<BB, It>>
  /\ UNCHANGED <<funcs, body, enabled, asserts, ExistentialArgDescriptor,
                 Changed, NumFunctionsWithExistentialArgsSpecialized,
                 worklist, invalidated, thunks, visited, analyzerLog,
                 rewriterLog>>

\* Determine the arguments that can be specialized, into a map that starts
\* empty.  The assert on the argument indexing ends the run in a build that
\* keeps asserts and is no code at all in one that does not.
AnalyzerStep ==
  /\ pc = "analyze"
  /\ LET Apply == CurrentInstruction IN
     IF Apply.first # 0 /\ asserts
     THEN /\ pc' = "aborted"
          /\ UNCHANGED <<BB, It, ExistentialArgDescriptor, analyzerLog>>
     ELSE \E oob \in BOOLEAN :
          LET r == canSpecializeExistentialArgsInFunction(Apply, oob) IN
          /\ analyzerLog' = Append(analyzerLog,
                                   [site |-> <<BB, It>>,
                                    callee |-> Apply.callee,
                                    resolved |-> r.resolved,
                                    scans |-> r.scans,
                                    map |-> r.map,
                                    returnFlag |-> r.returnFlag])
          /\ IF ~r.returnFlag
             THEN /\ Advance
                  /\ pc' = "loop"
                  /\ ExistentialArgDescriptor' = EmptyMap
             ELSE /\ pc' = "rewrite"
                  /\ ExistentialArgDescriptor' = r.map
                  /\ UNCHANGED <<BB, It>>
  /\ UNCHANGED <<funcs, body, enabled, asserts, Changed,
                 NumFunctionsWithExistentialArgsSpecialized, worklist,
                 invalidated, thunks, visited, filterLog, rewriterLog>>

\* Build the descriptor list, run the ExistentialTransform, and do the
\* bookkeeping when it changed something.  After F itself was rewritten the
\* loop's iterator points into instructions that are no longer there: the
\* run either walks on over them or dies.
RewriterStep ==
  /\ pc = "rewrite"
  /\ LET Apply == CurrentInstruction
         Callee == getReferencedFunction(Apply)
         Args == funcs[Callee].args
         NewF == getExistentialSpecializedFunction(Callee)
     IN \E ran \in BOOLEAN :
        /\ Changed' = ChangedAfter(Changed, ran)
        /\ rewriterLog' = Append(rewriterLog,
                                 [site |-> <<BB, It>>, callee |-> Callee,
                                  ArgumentDescList |->
                                    ArgumentDescList(Args),
                                  map |-> ExistentialArgDescriptor,
                                  result |-> ran])
        /\ ExistentialTransform_run(ran, Callee)
        /\ IF Changed'
           THEN /\ NumFunctionsWithExistentialArgsSpecialized' =
                     NumFunctionsWithExistentialArgsSpecialized + 1
                /\ worklist' = Append(worklist, NewF)
                /\ invalidated' = Append(invalidated, Callee)
           ELSE UNCHANGED <<NumFunctionsWithExistentialArgsSpecialized,
                            worklist, invalidated>>
        /\ ExistentialArgDescriptor' = EmptyMap
        /\ IF ran /\ Callee = "F"
           THEN \/ Advance /\ pc' = "loop"
                \/ pc' = "crashed" /\ UNCHANGED <<BB, It>>
           ELSE Advance /\ pc' = "loop"
  /\ UNCHANGED <<funcs, enabled, asserts, visited, filterLog, analyzerLog>>

Next ==
  \/ Run
  \/ VisitInstruction
  \/ Return
  \/ FilterStep
  \/ AnalyzerStep
  \/ RewriterStep

\* ----------------------------------------------------------------- inputs

\* The state when the pass manager calls run() on F.
Start(fs, blocks, en, as) ==
  /\ funcs = fs
  /\ body = blocks
  /\ enabled = en
  /\ asserts = as
  /\ pc = "start"
  /\ BB = 1
  /\ It = 1
  /\ ExistentialArgDescriptor = EmptyMap
  /\ Changed = FALSE
  /\ NumFunctionsWithExistentialArgsSpecialized = 0
  /\ worklist = <<>>
  /\ invalidated = <<>>
  /\ thunks = {}
  /\ visited = <<>>
  /\ filterLog = <<>>
  /\ analyzerLog = <<>>
  /\ rewriterLog = <<>>

\* The layouts of a list of instructions in one block or in two.
Layouts(flat) ==
  {<<flat>>} \cup
  {<<SubSeq(flat, 1, k), SubSeq(flat, k + 1, Len(flat))>> : k \in 1..(Len(flat) - 1)}

\* Every way to apply callee c of the module fs to well-formed arguments.
AppliesOf(fs, c) ==
  {ApplyOf(c, concrete, 0) : concrete \in SeqsOfLen(BOOLEAN, Len(fs[c].args))}

Module(F, g) == [n \in FunctionNames |-> IF n = "F" THEN F ELSE g]

\* Functions F that call themselves, other functions and unknown callees.
FShapes ==
  {Function(PlainAttributes, <<P_opaque>>),
   Function([PlainAttributes EXCEPT !.shouldOptimize = FALSE], <<P_opaque>>)}

GShapes ==
  {Function(a, args) :
     a \in {PlainAttributes,
            [PlainAttributes EXCEPT !.hasIndirectSILResults = TRUE],
            [PlainAttributes EXCEPT !.isDefinition = FALSE]},
     args \in {<<P_opaque, P_class>>, <<P_any, P_opaque>>}}

Init ==
  \E F \in FShapes, g \in GShapes, en \in BOOLEAN, as \in BOOLEAN :
    LET fs == Module(F, g)
        Insts == {NonApply, ApplyOf("none", <<TRUE>>, 0), ApplyOf("F", <<TRUE>>, 0)}
                   \cup AppliesOf(fs, "g")
    IN \E n \in 1..MaxInsts :
       \E flat \in SeqsOfLen(Insts, n) :
       \E blocks \in Layouts(flat) :
         Start(fs, blocks, en, as)

Spec == Init /\ [][Next]_vars

\* One call site, to a callee whose attributes range over every combination
\* the Filter can see, or to no known function at all.  The call site is
\* well formed, so the assert holds and the build makes no difference.
InitFilter ==
  \E a \in Attributes, c \in {"g", "none"} :
    Start(Module(Function(PlainAttributes, <<>>), Function(a, <<P_opaque>>)),
          <<<<ApplyOf(c, <<TRUE>>, 0)>>>>, TRUE, TRUE)

SpecFilter == InitFilter /\ [][Next]_vars

\* The argument lists drawn for the Analyzer: any argument at all, followed
\* by basic ones, and the lists of basic ones.
ArgLists ==
  {<<a>> \o rest : a \in AllArgs, rest \in SeqsUpTo(BasicArgs, MaxArgs - 1)}
    \cup UNION {SeqsOfLen(BasicArgs, n) : n \in 1..MaxArgs}

\* A call site to a callee the Filter accepts, over the argument lists and
\* every choice of which applied arguments have a concrete type; alone, or
\* behind a call site to the same callee where every argument has one.
\* The call sites are well formed, so the assert holds and the build makes
\* no difference.
InitAnalyzer ==
  \E args \in ArgLists :
    LET fs == Module(Function(PlainAttributes, <<>>),
                     Function(PlainAttributes, args))
        Earlier == ApplyOf("g", [i \in 1..Len(args) |-> TRUE], 0)
    IN \E I \in AppliesOf(fs, "g") :
       \E blocks \in {<<<<I>>>>, <<<<Earlier>>, <<I>>>>} :
         Start(fs, blocks, TRUE, TRUE)

SpecAnalyzer == InitAnalyzer /\ [][Next]_vars

\* Call sites handed over by a collaborator that may have got the argument
\* indexing wrong: the first applied argument is callee argument 0 or 1,
\* and the apply has the applied arguments only.
InitMisaligned ==
  \E args \in {<<P_opaque, P_class>>, <<P_class, P_opaque>>}, as \in BOOLEAN :
    LET fs == Module(Function(PlainAttributes, <<>>),
                     Function(PlainAttributes, args))
        Insts == {NonApply} \cup
                 {ApplyOf("g", concrete, first) :
                    first \in {0, 1},
                    concrete \in SeqsUpTo(BOOLEAN, Len(args))}
        WellSized == {I \in Insts :
                        I.isApply => Len(I.concrete) = Len(args) - I.first}
    IN \E n \in 1..MaxInsts :
       \E flat \in SeqsOfLen(WellSized, n) :
       \E blocks \in Layouts(flat) :
         Start(fs, blocks, TRUE, as)

SpecMisaligned == InitMisaligned /\ [][Next]_vars

\* ----------------------------------------------------------------- claims

InstAt(p) == body[p[1]][p[2]]

Entries(log) == {log[i] : i \in DOMAIN log}

RECURSIVE LayoutOrder(_, _)
LayoutOrder(blocks, b) ==
  IF b > Len(blocks) THEN <<>>
  ELSE [i \in 1..Len(blocks[b]) |-> <<b, i>>] \o LayoutOrder(blocks, b + 1)

IsPrefix(s, t) == Len(s) <= Len(t) /\ SubSeq(t, 1, Len(s)) = s

Successes == {i \in DOMAIN rewriterLog : rewriterLog[i].result}

\* The step is a Rewriter invocation that returned success.
RewriterSucceeds ==
  /\ Len(rewriterLog') = Len(rewriterLog) + 1
  /\ rewriterLog'[Len(rewriterLog')].result

C1_Counts ==
  /\ NumFunctionsWithExistentialArgsSpecialized = Cardinality(Successes)
  /\ Len(worklist) = Cardinality(Successes)
  /\ Len(invalidated) = Cardinality(Successes)

C1_Step ==
  IF RewriterSucceeds
  THEN LET e == rewriterLog'[Len(rewriterLog')] IN
       /\ NumFunctionsWithExistentialArgsSpecialized' =
            NumFunctionsWithExistentialArgsSpecialized + 1
       /\ worklist' = Append(worklist, MangledName(e.callee))
       /\ invalidated' = Append(invalidated, e.callee)
  ELSE /\ NumFunctionsWithExistentialArgsSpecialized' =
            NumFunctionsWithExistentialArgsSpecialized
       /\ worklist' = worklist
       /\ invalidated' = invalidated
       /\ body' = body

\* C1: the counter goes up by exactly 1, the new function is enqueued and
\* the callee is invalidated in exactly the steps in which the Rewriter was
\* invoked and returned success; every other step (a Filter rejection, an
\* Analyzer with nothing eligible, a Rewriter failure) leaves the counter,
\* the worklist, the invalidations and the instructions as they were.  So
\* the counter always equals the number of successful invocations, and it
\* never goes down.
C1_BookkeepingOnlyOnSuccess == [](C1_Counts) /\ [][C1_Step]_vars

\* A run in which one Rewriter invocation succeeded, another failed and a
\* call site was rejected by the Filter.
C1_Witness ==
  /\ pc = "done"
  /\ \E i, j \in DOMAIN rewriterLog :
       rewriterLog[i].result /\ ~rewriterLog[j].result
  /\ \E f \in Entries(filterLog) : ~f.result
  /\ NumFunctionsWithExistentialArgsSpecialized = 1

\* C2: once the Rewriter has succeeded for a callee, no later call site to
\* that callee leads to another Rewriter invocation.  Stated for the runs
\* that still walk the instructions of F, that is for callees other than F.
C2_NoSecondRewriteOfCallee ==
  \A i, j \in DOMAIN rewriterLog :
    (i < j /\ rewriterLog[i].result /\ "F" \notin thunks)
      => rewriterLog[j].callee # rewriterLog[i].callee

\* C3: per call site the order is Filter, Analyzer, Rewriter.  The Analyzer
\* has run only for a site the Filter accepted, so never for a callee with
\* an indirect result or without a body; the Rewriter has been invoked only
\* for a site whose Analyzer run reported something eligible, with that
\* non-empty map; and no step is taken twice for a site.
C3_FilterThenAnalyzerThenRewriter ==
  /\ \A a \in Entries(analyzerLog) :
       /\ \E f \in Entries(filterLog) : f.site = a.site /\ f.result
       /\ funcs[a.callee].attrs.isDefinition
       /\ ~funcs[a.callee].attrs.hasIndirectSILResults
  /\ \A f \in Entries(filterLog) :
       ~f.result =>
         /\ \A a \in Entries(analyzerLog) : a.site # f.site
         /\ \A r \in Entries(rewriterLog) : r.site # f.site
  /\ \A r \in Entries(rewriterLog) :
       /\ \E a \in Entries(analyzerLog) :
            a.site = r.site /\ a.returnFlag /\ a.map = r.map
       /\ DOMAIN r.map # {}
  /\ \A i, j \in DOMAIN filterLog :
       filterLog[i].site = filterLog[j].site => i = j
  /\ \A i, j \in DOMAIN analyzerLog :
       analyzerLog[i].site = analyzerLog[j].site => i = j
  /\ \A i, j \in DOMAIN rewriterLog :
       rewriterLog[i].site = rewriterLog[j].site => i = j
  /\ pc = "analyze" =>
       \E f \in Entries(filterLog) : f.site = <<BB, It>> /\ f.result
  /\ pc = "rewrite" =>
       \E a \in Entries(analyzerLog) : a.site = <<BB, It>> /\ a.returnFlag

\* A run with a call site that went all the way to the Rewriter and one to
\* a callee with an indirect result whose arguments have concrete types.
C3_Witness ==
  /\ rewriterLog # <<>>
  /\ \E f \in Entries(filterLog) :
       /\ ~f.result
       /\ f.callee = "g"
       /\ funcs["g"].attrs.hasIndirectSILResults
       /\ \E k \in DOMAIN InstAt(f.site).concrete : InstAt(f.site).concrete[k]

\* Index k of the callee of Analyzer run a is an argument that can be
\* specialized at a's call site.
Eligible(a, k) ==
  /\ k \in 0..(Len(funcs[a.callee].args) - 1)
  /\ funcs[a.callee].args[k + 1].type \in {"OpaqueProtocol", "ClassProtocol"}
  /\ InstAt(a.site).concrete[k + 1]

\* C4: after the Analyzer, every key of the map is the index of a callee
\* parameter that is existential, is neither Any nor AnyObject, is
\* represented opaque or as a class reference, and got a concrete type at
\* this call site; the map the Rewriter is handed is that map.
C4_KeysAreEligible ==
  /\ \A a \in Entries(analyzerLog) :
       \A k \in DOMAIN a.map :
         /\ Eligible(a, k)
         /\ k \in a.resolved
         /\ funcs[a.callee].args[k + 1].type
              \notin {"Concrete", "Any", "AnyObject", "ErrorProtocol",
                      "MetatypeProtocol"}
  /\ pc = "rewrite" =>
       ExistentialArgDescriptor = analyzerLog[Len(analyzerLog)].map
  /\ pc # "rewrite" => ExistentialArgDescriptor = EmptyMap

\* The Analyzer has made an entry for one argument and none for an Any
\* argument whose applied argument has a concrete type.
C4_Witness ==
  \E a \in Entries(analyzerLog) :
    /\ DOMAIN a.map # {}
    /\ \E k \in 0..(Len(funcs[a.callee].args) - 1) :
         /\ funcs[a.callee].args[k + 1].type = "Any"
         /\ InstAt(a.site).concrete[k + 1]
         /\ k \notin DOMAIN a.map

\* C5: the AccessType of an entry is Mutable exactly when the parameter's
\* convention is indirect-mutating or consumed, and Immutable otherwise.
C5_AccessTypeFromConvention ==
  \A a \in Entries(analyzerLog) :
    \A k \in DOMAIN a.map :
      /\ a.map[k].AccessType \in {"Mutable", "Immutable"}
      /\ a.map[k].AccessType = "Mutable"
           <=> funcs[a.callee].args[k + 1].conv \in {"indirectMutating", "consumed"}

\* One map with a Mutable entry for a consumed class-reference parameter
\* and an Immutable entry for a borrowed opaque one.
C5_Witness ==
  \E a \in Entries(analyzerLog) :
    \E k1, k2 \in DOMAIN a.map :
      /\ a.map[k1].AccessType = "Mutable"
      /\ funcs[a.callee].args[k1 + 1].conv = "consumed"
      /\ funcs[a.callee].args[k1 + 1].type = "ClassProtocol"
      /\ a.map[k2].AccessType = "Immutable"
      /\ funcs[a.callee].args[k2 + 1].type = "OpaqueProtocol"

HasDestroyUse(arg) == \E u \in DOMAIN arg.uses : arg.uses[u] = "DestroyAddr"

\* C6: DestroyAddrUse is false for a class-reference parameter whatever its
\* uses; for an opaque one it is true exactly when some use is a destroy;
\* and the uses are scanned for the opaque entries only.
C6_DestroyAddrUse ==
  \A a \in Entries(analyzerLog) :
    /\ \A k \in DOMAIN a.map :
         LET arg == funcs[a.callee].args[k + 1] IN
         /\ arg.type = "ClassProtocol" => ~a.map[k].DestroyAddrUse
         /\ arg.type = "OpaqueProtocol" =>
              (a.map[k].DestroyAddrUse <=> HasDestroyUse(arg))
    /\ a.scans =
         {k \in DOMAIN a.map :
            funcs[a.callee].args[k + 1].type = "OpaqueProtocol"}

\* One map with an entry for a class-reference parameter that has a destroy
\* use and an entry for an opaque one whose destroy is not its first use.
C6_Witness ==
  \E a \in Entries(analyzerLog) :
    \E k1, k2 \in DOMAIN a.map :
      /\ funcs[a.callee].args[k1 + 1].type = "ClassProtocol"
      /\ HasDestroyUse(funcs[a.callee].args[k1 + 1])
      /\ ~a.map[k1].DestroyAddrUse
      /\ funcs[a.callee].args[k2 + 1].uses = <<"Other", "DestroyAddr">>
      /\ a.map[k2].DestroyAddrUse

\* None of the seven reasons to reject a known callee holds of attributes at.
Acceptable(at) ==
  /\ at.shouldOptimize
  /\ at.isDefinition
  /\ ~at.hasIndirectSILResults
  /\ ~at.hasErrorResult
  /\ at.inlineStrategy # "AlwaysInline"
  /\ at.linkage \notin {"PublicExternal", "HiddenExternal"}
  /\ at.representation \notin {"ObjCMethod", "Block"}

\* None of the eight reasons to reject the callee of Filter run f holds.
NoRejection(f) ==
  /\ f.callee # "none"
  /\ Acceptable(funcs[f.callee].attrs)

C7_Step ==
  Len(filterLog') # Len(filterLog) =>
    UNCHANGED <<funcs, body, Changed,
                NumFunctionsWithExistentialArgsSpecialized, worklist,
                invalidated, thunks, ExistentialArgDescriptor>>

\* C7: the Filter accepts a call site exactly when none of the eight
\* rejection conditions holds (a conjunction, so whatever the order they
\* are looked at in), and evaluating it changes nothing.
C7_FilterAcceptsIffNoRejection ==
  [](\A f \in Entries(filterLog) : f.result <=> NoRejection(f))
    /\ [][C7_Step]_vars

\* The Filter has rejected a callee whose only fault is an error result.
C7_Witness ==
  \E f \in Entries(filterLog) :
    /\ ~f.result
    /\ f.callee = "g"
    /\ funcs["g"].attrs.hasErrorResult
    /\ Acceptable([funcs["g"].attrs EXCEPT !.hasErrorResult = FALSE])

\* C8: the map has an entry for exactly the eligible parameters; when there
\* is one the Rewriter is invoked; and the descriptor list it is handed has
\* one descriptor per callee parameter, in index order.
C8_FullDescriptorList ==
  /\ \A a \in Entries(analyzerLog) :
       /\ DOMAIN a.map = {k \in 0..(Len(funcs[a.callee].args) - 1) : Eligible(a, k)}
       /\ a.returnFlag <=> DOMAIN a.map # {}
       /\ a.returnFlag =>
            \/ pc = "rewrite" /\ a.site = <<BB, It>>
            \/ \E r \in Entries(rewriterLog) : r.site = a.site
  /\ \A r \in Entries(rewriterLog) :
       LET Args == funcs[r.callee].args IN
       /\ Len(r.ArgumentDescList) = Len(Args)
       /\ \A i \in 1..Len(Args) :
            /\ r.ArgumentDescList[i].Index = i - 1
            /\ r.ArgumentDescList[i].Arg = Args[i]

\* The Rewriter was invoked for a callee with two existential parameters of
\* which one has no concrete type: one entry, two descriptors.
C8_Witness ==
  \E r \in Entries(rewriterLog) :
    /\ Len(funcs[r.callee].args) = 2
    /\ \A i \in 1..2 : funcs[r.callee].args[i].type
                          \in {"OpaqueProtocol", "ClassProtocol"}
    /\ Cardinality(DOMAIN r.map) = 1
    /\ Len(r.ArgumentDescList) = 2

\* C9: a run is one forward pass over the instructions of F, each visited
\* once in layout order, that returns whatever the rewrites on the way did,
\* a call of F to itself included.
C9_SingleForwardPass ==
  /\ IsPrefix(visited, LayoutOrder(body, 1))
  /\ pc = "done" => visited = LayoutOrder(body, 1)
  /\ pc # "crashed"
  /\ "F" \notin thunks

\* C10: a call site whose first applied argument is not callee argument 0
\* ends the run when it reaches the Analyzer, so the Rewriter is never
\* invoked for such a site.
C10_MisalignedSiteAborts ==
  \A r \in Entries(rewriterLog) : InstAt(r.site).first = 0

====
